---- MODULE Spec2Model ----
(***************************************************************************)
(* Model of the carousel generator (src/App.tsx, src/types.ts).            *)
(*                                                                         *)
(* Spec     : one CarouselPreview component instance: the background-image *)
(*            orchestration (useEffect/fetchImages) and the ZIP export     *)
(*            (handleDownloadZip), with the carousel prop as its input.    *)
(* SpecApp  : App.handleGeneration with the generation service's replies.  *)
(* SpecNav  : the preview's slide navigation beside its image batches.     *)
(* SpecCsv  : Mode2Upload: reading a CSV file and submitting the form.     *)
(* SpecGroup: the row grouping of generateCarouselsFromCSV.                *)
(* SpecFont : the font-fitting loop of renderSlideToBlob.                  *)
(* SpecWrap : wrapText, and wrapText on the lines it drew.                 *)
(*                                                                         *)
(* Strings the code inspects are sequences of characters or tokens, so     *)
(* that includes() and replace() are computed rather than assumed.         *)
(* Values that may be null are tuples: <<>> is null.                       *)
(***************************************************************************)
EXTENDS Integers, Sequences, FiniteSets, TLC

\* ------------------------------------------------------------------ bounds
\* how many times the carousel prop of the preview is replaced
MaxReplacements == 1

\* how many generation attempts the user makes
MaxAttempts == 2
\* longest reply text of the generation service, in tokens
MaxReplyLen == 3
\* data lines in an uploaded file
MaxCsvLines == 2
\* rows given to generateCarouselsFromCSV
MaxGroupRows == 3
\* width of a slide's text, in tenths of its font size
MaxTextUnits == 800
\* characters in a text given to wrapText
MaxTextLen == 6

\* ------------------------------------------------------------------ values
Null == <<>>
Pending == <<"pending">>

\* the two needles of the effect's substring test
Foto == <<"f", "o", "t", "o">>
Photo == <<"p", "h", "o", "t", "o">>

\* String.prototype.includes
Includes(s, sub) ==
    \E i \in 0..(Len(s) - Len(sub)) : SubSeq(s, i + 1, i + Len(sub)) = sub

\* The carousel objects the preview can be given, told apart by their index
\* (object identity).  They share one id: ResultsDisplay keys each preview by
\* carousel.id, so a mounted preview only ever gets a carousel of the same id.
\* estilo_fundo is optional (an absent field is undefined); slides are in
\* storage order.
Slide(o, t, p) == [ordem |-> o, tipo |-> t, prompt_imagem |-> p]

CarouselObjects ==
    <<  [id |-> "c1",
         estilo_fundo |-> <<"f", "o", "t", "o", "g", "r", "a", "f", "i", "a">>,
         slides |-> <<Slide(2, "conteudo", "p1b"), Slide(1, "capa", "p1a")>>],
        [id |-> "c1",
         estilo_fundo |-> <<"r", "e", "a", "l", " ", "p", "h", "o", "t", "o">>,
         slides |-> <<Slide(1, "capa", "p2a"), Slide(2, "cta", "p2b")>>],
        [id |-> "c1",
         slides |-> <<Slide(3, "cta", "p3c"), Slide(1, "capa", "p3a"),
                      Slide(2, "conteudo", "p3b")>>],
        [id |-> "c1",
         estilo_fundo |-> <<"F", "o", "t", "o">>,
         slides |-> <<Slide(1, "capa", "p4a")>>]  >>

Carousels == DOMAIN CarouselObjects

SlidesOf(c) == CarouselObjects[c].slides
Orders(c) == {SlidesOf(c)[i].ordem : i \in DOMAIN SlidesOf(c)}

\* carousel.estilo_fundo?.includes('foto') || carousel.estilo_fundo?.includes('photo')
IsPhotoBg(c) ==
    /\ "estilo_fundo" \in DOMAIN CarouselObjects[c]
    /\ \/ Includes(CarouselObjects[c].estilo_fundo, Foto)
       \/ Includes(CarouselObjects[c].estilo_fundo, Photo)

\* generateImage resolves to a data URI made from the reply to this prompt,
\* or to null; it never rejects
DataUri(prompt) == <<"data:image/png;base64", prompt>>
GenerateImageResults(prompt) == {Null, DataUri(prompt)}

VARIABLES
    carousel,          \* the carousel prop (an index of CarouselObjects)
    imageUrls,         \* useState<Record<number,string>>: ordem -> url
    isLoadingImages,   \* useState(false)
    batches,           \* fetchImages invocations awaiting Promise.all
    issued,            \* history: generateImage calls made, per carousel
    lastApplied,       \* history: the batch whose results were applied last
    replacements,      \* history: number of prop replacements so far
    isZipping,         \* useState(false)
    zipPc,             \* where handleDownloadZip is suspended, or "idle"
    zipCar,            \* the carousel captured by the running handler
    zipUrls,           \* the imageUrls captured by the running handler
    zipIdx,            \* index of the slide the loop is at
    bgImage,           \* the loop's bgImage for the current slide
    zipFiles,          \* the entries of the JSZip object, in insertion order
    inflight,          \* asynchronous operations started and not yet settled
    decoded,           \* history: how the current slide's decode ended
    slideLog,          \* history: per slide processed, its decode and blob
    alertCount,        \* history: alert() calls of the current/last export
    saveAsCalls,       \* history: saveAs() calls of the current/last export
    threw,             \* history: the current/last export reached its catch
    results,           \* App: useState<ApiResponse | null>(null)
    isLoading,         \* App: useState(false)
    error,             \* App: useState<string | null>(null)
    genPc,             \* App: where handleGeneration is suspended, or "idle"
    reply,             \* the service's reply to the current/last attempt
    attempts,          \* history: number of handleGeneration calls
    succeeded,         \* history: number of attempts that set results
    currentSlide,      \* CarouselPreview: useState(0), index of the shown slide
    csvData,           \* Mode2Upload: useState<CsvRow[] | null>(null)
    fileLines,         \* history: the data lines of the last file read
    csvCall,           \* history: the argument generateCarouselsFromCSV was
                       \* called with since the last file was read
    lastAlert,         \* history: the last alert Mode2Upload showed
    groupRows,         \* generateCarouselsFromCSV: its argument csvData
    carouselsMap,      \* generateCarouselsFromCSV: carouselsMap, once built
    fitIn,             \* renderSlideToBlob: the slide's tipo and its text's width
    fontSize,          \* renderSlideToBlob: let fontSize
    fitPc,             \* renderSlideToBlob: "loop" in the while, then "done"
    lineHeight,        \* renderSlideToBlob: const lineHeight
    wrapIn,            \* wrapText: its arguments text, x, y, maxWidth, lineHeight
    drawn,             \* wrapText: the fillText calls it made, in order
    rewrapped          \* the fillText calls of wrapText run on each drawn line

orchVars == <<carousel, imageUrls, isLoadingImages, batches, issued,
              lastApplied, replacements>>

zipVars == <<isZipping, zipPc, zipCar, zipUrls, zipIdx, bgImage, zipFiles,
             inflight, decoded, slideLog, alertCount, saveAsCalls, threw>>

appVars == <<results, isLoading, error, genPc, reply, attempts, succeeded>>

navVars == <<currentSlide>>

\* the state of the parts added after the preview's orchestrator, exporter
\* and App.handleGeneration
csvVars == <<csvData, fileLines, csvCall, lastAlert>>

groupVars == <<groupRows, carouselsMap>>

fontVars == <<fitIn, fontSize, fitPc, lineHeight>>

wrapVars == <<wrapIn, drawn, rewrapped>>

auxVars == <<navVars, csvVars, groupVars, fontVars, wrapVars>>

vars == <<orchVars, zipVars, appVars, auxVars>>

\* ------------------------------------------------------------ orchestrator
\* carousel.slides.map(slide => generateImage(slide.prompt_imagem))
NewBatch(c) == [car |-> c, results |-> [i \in DOMAIN SlidesOf(c) |-> Pending]]

\* the body of the effect, run after mount and after every change of the prop
EffectBatches(c, bs) == IF IsPhotoBg(c) THEN Append(bs, NewBatch(c)) ELSE bs
EffectLoading(c, loading) == IF IsPhotoBg(c) THEN TRUE ELSE loading
EffectIssued(c, iss) ==
    IF IsPhotoBg(c) THEN [iss EXCEPT ![c] = @ + Len(SlidesOf(c))] ELSE iss

\* BuildUrls with each result keyed by its position in the batch instead of by
\* its slide's ordem
BuildUrlsByIndex(c, urlResults) ==
    [k \in {i \in DOMAIN urlResults : urlResults[i] # Null} |-> urlResults[k]]

\* results.forEach((url, index) => { if (url) urls[slides[index].ordem] = url })
BuildUrls(c, urlResults) ==
    LET hit(k) == {i \in DOMAIN urlResults :
                      SlidesOf(c)[i].ordem = k /\ urlResults[i] # Null}
        last(k) == CHOOSE i \in hit(k) : \A j \in hit(k) : j <= i
    IN  [k \in {o \in Orders(c) : hit(o) # {}} |-> urlResults[last(k)]]

RemoveAt(s, b) == [i \in 1..(Len(s) - 1) |-> IF i < b THEN s[i] ELSE s[i + 1]]

\* the carousel prop changes identity: the component re-renders and the effect
\* (dependency [carousel]) runs again; nothing is reset or cancelled
ReplaceCarousel(c) ==
    /\ replacements < MaxReplacements
    /\ c # carousel
    /\ carousel' = c
    /\ replacements' = replacements + 1
    /\ batches' = EffectBatches(c, batches)
    /\ isLoadingImages' = EffectLoading(c, isLoadingImages)
    /\ issued' = EffectIssued(c, issued)
    /\ UNCHANGED <<imageUrls, lastApplied>>
    /\ UNCHANGED <<zipVars, appVars, auxVars>>

\* one generateImage promise of batch b settles
RequestSettle(b, i, r) ==
    /\ b \in DOMAIN batches
    /\ i \in DOMAIN batches[b].results
    /\ batches[b].results[i] = Pending
    /\ r \in GenerateImageResults(SlidesOf(batches[b].car)[i].prompt_imagem)
    /\ batches' = [batches EXCEPT ![b].results[i] = r]
    /\ UNCHANGED <<carousel, imageUrls, isLoadingImages, issued, lastApplied,
                   replacements>>
    /\ UNCHANGED <<zipVars, appVars, auxVars>>

\* Promise.all resolved: the rest of fetchImages runs
BatchComplete(b) ==
    /\ b \in DOMAIN batches
    /\ \A i \in DOMAIN batches[b].results : batches[b].results[i] # Pending
    /\ imageUrls' = BuildUrls(batches[b].car, batches[b].results)
    /\ isLoadingImages' = FALSE
    /\ lastApplied' = <<[car |-> batches[b].car, results |-> batches[b].results,
                         active |-> carousel]>>
    /\ batches' = RemoveAt(batches, b)
    /\ UNCHANGED <<carousel, issued, replacements>>
    /\ UNCHANGED <<zipVars, appVars, auxVars>>

\* ----------------------------------------------------------------- exporter
\* `slide_${slide.ordem}.png` and `${carousel.id}.zip`
SlideFileName(ordem) == <<"slide_", ordem, ".png">>
ZipFileName(c) == <<CarouselObjects[c].id, ".zip">>

\* if (imageUrl): the map has a non-empty string for this order
HasUrl(urls, ordem) == ordem \in DOMAIN urls /\ urls[ordem] # Null

\* renderSlideToBlob: null without a 2D context; otherwise the PNG of the
\* slide over the photo (bgImage given) or over the palette background
RenderSlideToBlob(slide, bg, ctxOk) ==
    IF ~ctxOk THEN Null
    ELSE <<"png", slide.ordem, IF bg # Null THEN "photo" ELSE "palette">>

\* zip.file(name, blob): a new entry, or the entry of that name replaced
ZipFile(files, name, blob) ==
    IF \E j \in DOMAIN files : files[j].name = name
    THEN [j \in DOMAIN files |->
            IF files[j].name = name THEN [name |-> name, blob |-> blob]
            ELSE files[j]]
    ELSE Append(files, [name |-> name, blob |-> blob])

\* AddBlob without the `if (blob)` test
AddBlobAlways(files, slide, blob) ==
    ZipFile(files, SlideFileName(slide.ordem), blob)

\* if (blob) { zip.file(`slide_${slide.ordem}.png`, blob) }
AddBlob(files, slide, blob) ==
    IF blob # Null THEN ZipFile(files, SlideFileName(slide.ordem), blob)
    ELSE files

\* LoopFrom fanned out: the work of slide i+1 is started together with that of
\* slide i instead of after it
LoopFromFanOut(c, urls, i, rest) ==
    LET op(j) == IF HasUrl(urls, SlidesOf(c)[j].ordem) THEN <<"decode", j>>
                 ELSE <<"render", j>>
        started == {op(j) : j \in {i, i + 1} \cap DOMAIN SlidesOf(c)}
    IN  /\ zipIdx' = i
        /\ IF i > Len(SlidesOf(c))
           THEN /\ zipPc' = "packing"
                /\ inflight' = rest \cup {<<"pack", 0>>}
           ELSE /\ zipPc' = IF op(i)[1] = "decode" THEN "decoding" ELSE "rendering"
                /\ inflight' = rest \cup started
        /\ bgImage' = Null
        /\ decoded' = "none"

\* the for-of loop of handleDownloadZip arriving at index i of the captured
\* carousel's slides, `rest` being what is still in flight: it runs to its next
\* await (the image decode, renderSlideToBlob, or after the loop generateAsync)
LoopFrom(c, urls, i, rest) ==
    /\ zipIdx' = i
    /\ IF i > Len(SlidesOf(c))
       THEN /\ zipPc' = "packing"
            /\ inflight' = rest \cup {<<"pack", 0>>}
       ELSE IF HasUrl(urls, SlidesOf(c)[i].ordem)
       THEN /\ zipPc' = "decoding"
            /\ inflight' = rest \cup {<<"decode", i>>}
       ELSE /\ zipPc' = "rendering"
            /\ inflight' = rest \cup {<<"render", i>>}
    /\ bgImage' = Null
    /\ decoded' = "none"

\* catch { alert(...) } finally { setIsZipping(false) }
CatchFinally ==
    /\ threw' = TRUE
    /\ alertCount' = alertCount + 1
    /\ isZipping' = FALSE
    /\ zipPc' = "idle"

\* ClickDownload with the button left enabled while isZipping: a second
\* handleDownloadZip starts beside the one still running
ClickDownloadNotDisabled(jszipOk) ==
    /\ zipCar' = carousel
    /\ zipUrls' = imageUrls
    /\ zipFiles' = <<>>
    /\ slideLog' = <<>>
    /\ saveAsCalls' = <<>>
    /\ IF jszipOk
       THEN /\ isZipping' = TRUE
            /\ threw' = FALSE
            /\ alertCount' = 0
            /\ LoopFrom(carousel, imageUrls, 1, inflight)
       ELSE /\ threw' = TRUE
            /\ alertCount' = 1
            /\ isZipping' = FALSE
            /\ zipPc' = "idle"
            /\ zipIdx' = 0
            /\ UNCHANGED <<bgImage, inflight, decoded>>
    /\ UNCHANGED <<orchVars, appVars, auxVars>>

\* click on the download button (disabled while isZipping); the handler
\* captures carousel and imageUrls of the render it was created in
ClickDownload(jszipOk) ==
    /\ ~isZipping
    /\ zipCar' = carousel
    /\ zipUrls' = imageUrls
    /\ zipFiles' = <<>>
    /\ slideLog' = <<>>
    /\ saveAsCalls' = <<>>
    /\ IF jszipOk
       THEN /\ isZipping' = TRUE
            /\ threw' = FALSE
            /\ alertCount' = 0
            /\ LoopFrom(carousel, imageUrls, 1, {})
       ELSE \* new JSZip() throws before the first await
            /\ threw' = TRUE
            /\ alertCount' = 1
            /\ isZipping' = FALSE
            /\ zipPc' = "idle"
            /\ zipIdx' = 0
            /\ UNCHANGED <<bgImage, inflight, decoded>>
    /\ UNCHANGED <<orchVars, appVars, auxVars>>

\* DecodeSettle with img.onerror rejecting the promise instead of resolving it
\* to null: the failed decode lands in the handler's catch
DecodeSettleRejects(ok) ==
    /\ zipPc = "decoding"
    /\ <<"decode", zipIdx>> \in inflight
    /\ IF ok
       THEN /\ bgImage' = <<"img", zipUrls[SlidesOf(zipCar)[zipIdx].ordem]>>
            /\ decoded' = "ok"
            /\ zipPc' = "rendering"
            /\ inflight' = (inflight \ {<<"decode", zipIdx>>})
                              \cup {<<"render", zipIdx>>}
            /\ UNCHANGED <<isZipping, alertCount, threw>>
       ELSE /\ CatchFinally
            /\ inflight' = inflight \ {<<"decode", zipIdx>>}
            /\ UNCHANGED <<bgImage, decoded>>
    /\ UNCHANGED <<zipCar, zipUrls, zipIdx, zipFiles, slideLog, saveAsCalls>>
    /\ UNCHANGED <<orchVars, appVars, auxVars>>

\* img.onload (ok) or img.onerror: the promise resolves to img or null, and
\* the handler goes on to call renderSlideToBlob
DecodeSettle(ok) ==
    /\ zipPc = "decoding"
    /\ <<"decode", zipIdx>> \in inflight
    /\ bgImage' = IF ok THEN <<"img", zipUrls[SlidesOf(zipCar)[zipIdx].ordem]>>
                  ELSE Null
    /\ decoded' = IF ok THEN "ok" ELSE "error"
    /\ zipPc' = "rendering"
    /\ inflight' = (inflight \ {<<"decode", zipIdx>>}) \cup {<<"render", zipIdx>>}
    /\ UNCHANGED <<isZipping, zipCar, zipUrls, zipIdx, zipFiles, slideLog,
                   alertCount, saveAsCalls, threw>>
    /\ UNCHANGED <<orchVars, appVars, auxVars>>

\* RenderSettle with the loop reading the component's current imageUrls
\* instead of the map captured when the export started
RenderSettleLiveMap(ctxOk) ==
    /\ zipPc = "rendering"
    /\ <<"render", zipIdx>> \in inflight
    /\ LET slide == SlidesOf(zipCar)[zipIdx]
           blob == RenderSlideToBlob(slide, bgImage, ctxOk)
       IN  /\ zipFiles' = AddBlob(zipFiles, slide, blob)
           /\ slideLog' = Append(slideLog, [ordem |-> slide.ordem,
                                            decode |-> decoded, blob |-> blob])
    /\ LoopFrom(zipCar, imageUrls, zipIdx + 1, inflight \ {<<"render", zipIdx>>})
    /\ UNCHANGED <<isZipping, zipCar, zipUrls, alertCount, saveAsCalls, threw>>
    /\ UNCHANGED <<orchVars, appVars, auxVars>>

\* renderSlideToBlob resolves; if (blob) zip.file(...); next iteration
RenderSettle(ctxOk) ==
    /\ zipPc = "rendering"
    /\ <<"render", zipIdx>> \in inflight
    /\ LET slide == SlidesOf(zipCar)[zipIdx]
           blob == RenderSlideToBlob(slide, bgImage, ctxOk)
       IN  /\ zipFiles' = AddBlob(zipFiles, slide, blob)
           /\ slideLog' = Append(slideLog, [ordem |-> slide.ordem,
                                            decode |-> decoded, blob |-> blob])
    /\ LoopFrom(zipCar, zipUrls, zipIdx + 1, inflight \ {<<"render", zipIdx>>})
    /\ UNCHANGED <<isZipping, zipCar, zipUrls, alertCount, saveAsCalls, threw>>
    /\ UNCHANGED <<orchVars, appVars, auxVars>>

\* PackSettle with the download offered whether or not packing succeeded
PackSettleSavesAnyway(ok) ==
    /\ zipPc = "packing"
    /\ <<"pack", 0>> \in inflight
    /\ inflight' = inflight \ {<<"pack", 0>>}
    /\ saveAsCalls' = Append(saveAsCalls, [content |-> zipFiles,
                                           filename |-> ZipFileName(zipCar)])
    /\ IF ok
       THEN /\ isZipping' = FALSE
            /\ zipPc' = "idle"
            /\ UNCHANGED <<threw, alertCount>>
       ELSE CatchFinally
    /\ UNCHANGED <<zipCar, zipUrls, zipIdx, bgImage, zipFiles, decoded, slideLog>>
    /\ UNCHANGED <<orchVars, appVars, auxVars>>

\* zip.generateAsync settles: saveAs(content, name) or the catch; then finally
PackSettle(ok) ==
    /\ zipPc = "packing"
    /\ <<"pack", 0>> \in inflight
    /\ inflight' = inflight \ {<<"pack", 0>>}
    /\ IF ok
       THEN /\ saveAsCalls' = Append(saveAsCalls, [content |-> zipFiles,
                                                   filename |-> ZipFileName(zipCar)])
            /\ isZipping' = FALSE
            /\ zipPc' = "idle"
            /\ UNCHANGED <<threw, alertCount>>
       ELSE /\ CatchFinally
            /\ UNCHANGED saveAsCalls
    /\ UNCHANGED <<zipCar, zipUrls, zipIdx, bgImage, zipFiles, decoded, slideLog>>
    /\ UNCHANGED <<orchVars, appVars, auxVars>>

InitZip ==
    /\ isZipping = FALSE
    /\ zipPc = "idle"
    /\ zipCar = carousel
    /\ zipUrls = <<>>
    /\ zipIdx = 0
    /\ bgImage = Null
    /\ zipFiles = <<>>
    /\ inflight = {}
    /\ decoded = "none"
    /\ slideLog = <<>>
    /\ alertCount = 0
    /\ saveAsCalls = <<>>
    /\ threw = FALSE

\* ---------------------------------------------------------------------- App
\* A reply text of the generation service is a sequence of tokens: the opening
\* fence (three backticks and json), the closing fence (three backticks), a
\* run of whitespace, a JSON object
\* with carousels, a JSON object with an empty carrosseis list, and text that
\* is not JSON.
FenceOpen == "<fence>json"
FenceClose == "<fence>"
Ws == " "
ObjCarousels == "{carrosseis:[c1]}"
ObjEmpty == "{carrosseis:[]}"
Junk == "Sorry"
Tokens == {FenceOpen, FenceClose, Ws, ObjCarousels, ObjEmpty, Junk}

ReplyTexts == UNION {[1..n -> Tokens] : n \in 0..MaxReplyLen}

NoReply == [kind |-> "none"]
\* generateContent rejects with an Error (its message may be empty), or
\* resolves to a response whose text is missing or is a reply text
Replies ==
    {[kind |-> "error", message |-> m] : m \in {"", "503 Service Unavailable"}}
    \cup {[kind |-> "notext"]}
    \cup {[kind |-> "text", text |-> t] : t \in ReplyTexts}

RECURSIVE DropLeadingWs(_)
DropLeadingWs(t) ==
    IF t # <<>> /\ Head(t) = Ws THEN DropLeadingWs(Tail(t)) ELSE t

RECURSIVE DropTrailingWs(_)
DropTrailingWs(t) ==
    IF t # <<>> /\ t[Len(t)] = Ws THEN DropTrailingWs(SubSeq(t, 1, Len(t) - 1))
    ELSE t

\* responseText.replace(/^```json\s*/, '')
StripFenceOpen(t) ==
    IF t # <<>> /\ Head(t) = FenceOpen THEN DropLeadingWs(Tail(t)) ELSE t

\* .replace(/\s*```$/, '')
StripFenceClose(t) ==
    IF t # <<>> /\ t[Len(t)] = FenceClose
    THEN DropTrailingWs(SubSeq(t, 1, Len(t) - 1))
    ELSE t

\* JSON.parse: one JSON value, whitespace allowed around it
JsonParse(t) ==
    LET v == DropTrailingWs(DropLeadingWs(t))
    IN  IF Len(v) = 1 /\ v[1] \in {ObjCarousels, ObjEmpty}
        THEN [ok |-> TRUE,
              value |-> [carrosseis |-> IF v[1] = ObjCarousels THEN <<"c1">>
                                        ELSE <<>>]]
        ELSE [ok |-> FALSE]

\* the message of the Error thrown by parseJsonResponse (accents dropped)
ParseErrorMessage == "A resposta da IA nao esta em formato JSON valido."
UnknownErrorMessage == "An unknown error occurred."

\* parseJsonResponse: the parsed value, or its Error for any failure in the try
ParseJsonResponse(r) ==
    IF r.kind = "text" /\ JsonParse(StripFenceClose(StripFenceOpen(r.text))).ok
    THEN [ok |-> TRUE,
          value |-> JsonParse(StripFenceClose(StripFenceOpen(r.text))).value]
    ELSE [ok |-> FALSE, message |-> ParseErrorMessage]

\* generationFn(): generateCarouselsFromIA / generateCarouselsFromCSV awaiting
\* generateContent and returning parseJsonResponse(response.text)
GenerationFn(r) ==
    IF r.kind = "error" THEN [ok |-> FALSE, message |-> r.message]
    ELSE ParseJsonResponse(r)

\* err.message || 'An unknown error occurred.'
ErrorText(message) == IF message = "" THEN UnknownErrorMessage ELSE message

\* what ResultsDisplay renders
View ==
    IF isLoading THEN "loader"
    ELSE IF error # Null /\ error[1] # "" THEN "error"
    ELSE IF results = Null \/ Len(results[1].carrosseis) = 0 THEN "noResults"
    ELSE "carousels"

\* HandleGeneration without the setResults(null) at its start
HandleGenerationKeepsResults ==
    /\ ~isLoading
    /\ attempts < MaxAttempts
    /\ attempts' = attempts + 1
    /\ isLoading' = TRUE
    /\ error' = Null
    /\ genPc' = "awaiting"
    /\ reply' = NoReply
    /\ UNCHANGED <<results, succeeded>>
    /\ UNCHANGED <<orchVars, zipVars, auxVars>>

\* a form is submitted (its button is disabled while isLoading): the part of
\* handleGeneration before the await
HandleGeneration ==
    /\ ~isLoading
    /\ attempts < MaxAttempts
    /\ attempts' = attempts + 1
    /\ isLoading' = TRUE
    /\ error' = Null
    /\ results' = Null
    /\ genPc' = "awaiting"
    /\ reply' = NoReply
    /\ UNCHANGED succeeded
    /\ UNCHANGED <<orchVars, zipVars, auxVars>>

\* the generation service answers the request
ServiceResponds(r) ==
    /\ genPc = "awaiting"
    /\ reply' = r
    /\ genPc' = "responded"
    /\ UNCHANGED <<results, isLoading, error, attempts, succeeded>>
    /\ UNCHANGED <<orchVars, zipVars, auxVars>>

\* generationFn() settles: setResults(data), or the catch; then the finally
GenerationSettles ==
    /\ genPc = "responded"
    /\ LET out == GenerationFn(reply)
       IN  IF out.ok
           THEN /\ results' = <<out.value>>
                /\ succeeded' = succeeded + 1
                /\ UNCHANGED error
           ELSE /\ error' = <<ErrorText(out.message)>>
                /\ UNCHANGED <<results, succeeded>>
    /\ isLoading' = FALSE
    /\ genPc' = "idle"
    /\ UNCHANGED <<reply, attempts>>
    /\ UNCHANGED <<orchVars, zipVars, auxVars>>

InitApp ==
    /\ results = Null
    /\ isLoading = FALSE
    /\ error = Null
    /\ genPc = "idle"
    /\ reply = NoReply
    /\ attempts = 0
    /\ succeeded = 0

\* ----------------------------------------------------- slide navigation
exceptNav ==
    <<orchVars, zipVars, appVars, csvVars, groupVars, fontVars, wrapVars>>

\* carousel.slides.length
SlideCount(c) == Len(SlidesOf(c))

\* the previous and next buttons are rendered when the carousel has more than
\* one slide
\* nextSlide: setCurrentSlide(prev => (prev + 1) % carousel.slides.length)
NextSlide ==
    /\ SlideCount(carousel) > 1
    /\ currentSlide' = (currentSlide + 1) % SlideCount(carousel)
    /\ UNCHANGED exceptNav

\* prevSlide: setCurrentSlide(prev =>
\*     (prev - 1 + carousel.slides.length) % carousel.slides.length)
PrevSlide ==
    /\ SlideCount(carousel) > 1
    /\ currentSlide' =
           (currentSlide - 1 + SlideCount(carousel)) % SlideCount(carousel)
    /\ UNCHANGED exceptNav

\* one dot per slide: onClick={() => setCurrentSlide(index)}
SelectDot(index) ==
    /\ currentSlide' = index
    /\ UNCHANGED exceptNav

InitNav == currentSlide = 0

\* -------------------------------------------------------- the CSV form
\* Strings the code takes apart are sequences of one-character strings.
exceptCsv ==
    <<orchVars, zipVars, navVars, groupVars, fontVars, wrapVars>>

\* String.prototype.split(sep) for a one-character separator
RECURSIVE SplitOn(_, _)
SplitOn(str, sep) ==
    IF \A i \in DOMAIN str : str[i] # sep
    THEN <<str>>
    ELSE LET i == CHOOSE k \in DOMAIN str :
                      str[k] = sep /\ \A j \in 1..(k - 1) : str[j] # sep
         IN  <<SubSeq(str, 1, i - 1)>> \o SplitOn(SubSeq(str, i + 1, Len(str)), sep)

\* Array.prototype.join(sep)
RECURSIVE JoinWith(_, _)
JoinWith(parts, sep) ==
    IF parts = <<>> THEN <<>>
    ELSE IF Len(parts) = 1 THEN parts[1]
    ELSE parts[1] \o <<sep>> \o JoinWith(Tail(parts), sep)

IsSpace(ch) == ch \in {" ", "\r", "\n", "\t"}

\* String.prototype.trim()
RECURSIVE TrimStart(_)
TrimStart(str) ==
    IF str # <<>> /\ IsSpace(str[1]) THEN TrimStart(Tail(str)) ELSE str
RECURSIVE TrimEnd(_)
TrimEnd(str) ==
    IF str # <<>> /\ IsSpace(str[Len(str)])
    THEN TrimEnd(SubSeq(str, 1, Len(str) - 1)) ELSE str
Trim(str) == TrimEnd(TrimStart(str))

\* replace(/"/g, '')
RemoveQuotes(str) == SelectSeq(str, LAMBDA ch : ch # "\"")

Digits == <<"0", "1", "2", "3", "4", "5", "6", "7", "8", "9">>
IsDigit(ch) == \E d \in DOMAIN Digits : Digits[d] = ch
DigitValue(ch) == (CHOOSE d \in DOMAIN Digits : Digits[d] = ch) - 1

\* the value of the longest prefix of digits, acc being the value so far
RECURSIVE DigitsValue(_, _)
DigitsValue(str, acc) ==
    IF str # <<>> /\ IsDigit(str[1])
    THEN DigitsValue(Tail(str), acc * 10 + DigitValue(str[1]))
    ELSE acc

\* parseInt(field, 10) of an unsigned field: <<n>>, or <<>> for NaN (no field,
\* or no digit after the leading white space)
ParseInt(field) ==
    IF field = <<>> THEN <<>>
    ELSE LET t == TrimStart(field[1])
         IN  IF t # <<>> /\ IsDigit(t[1]) THEN <<DigitsValue(t, 0)>> ELSE <<>>

\* const [carrossel_id, ordem_slide, ...fraseParts] = rowStr.split(',') and the
\* object built from it; ordem_slide is <<n>> or <<>> (NaN)
ParseRow(rowStr) ==
    LET parts == SplitOn(rowStr, ",")
        fraseParts == SubSeq(parts, 3, Len(parts))
    IN  [carrossel_id |-> parts[1],
         ordem_slide |-> ParseInt(IF Len(parts) >= 2 THEN <<parts[2]>> ELSE <<>>),
         frase |-> Trim(RemoveQuotes(JoinWith(fraseParts, ",")))]

\* r.carrossel_id && !isNaN(r.ordem_slide) && r.frase
KeepRow(r) == r.carrossel_id # <<>> /\ r.ordem_slide # <<>> /\ r.frase # <<>>

CsvRow(r) == [carrossel_id |-> r.carrossel_id, ordem_slide |-> r.ordem_slide[1],
              frase |-> r.frase]

RECURSIVE MapRows(_)
MapRows(rowStrs) ==
    IF rowStrs = <<>> THEN <<>>
    ELSE <<ParseRow(rowStrs[1])>> \o MapRows(Tail(rowStrs))

RECURSIVE ToCsvRows(_)
ToCsvRows(rs) ==
    IF rs = <<>> THEN <<>> ELSE <<CsvRow(rs[1])>> \o ToCsvRows(Tail(rs))

\* reader.onload: text.split('\n').slice(1), map, filter
ParseCsv(text) ==
    ToCsvRows(SelectSeq(MapRows(Tail(SplitOn(text, "\n"))), KeepRow))

\* the text of a file: a header line and the data lines, joined by newlines
CsvHeader == <<"i", "d", ",", "n", ",", "f">>
FileText(lines) == JoinWith(<<CsvHeader>> \o lines, "\n")

\* the lines users put into files: a good row, a good row whose quoted phrase
\* holds a comma, an empty line (a file ending in a newline), a non-numeric
\* ordem, and a missing phrase
CsvLines ==
    { <<"c", "1", ",", "1", ",", "A">>,
      <<"c", "1", ",", "2", ",", "\"", "A", ",", "B", "\"">>,
      <<>>,
      <<"c", "1", ",", "x", ",", "A">>,
      <<"c", "1", ",", "2">> }

RECURSIVE SeqsUpTo(_, _)
SeqsUpTo(S, n) ==
    IF n = 0 THEN {<<>>}
    ELSE LET shorter == SeqsUpTo(S, n - 1)
         IN  shorter \cup {Append(q, x) : q \in shorter, x \in S}

CsvFiles == SeqsUpTo(CsvLines, MaxCsvLines)

\* processFile for a file of type text/csv, and the reader's onload
ProcessFile(lines) ==
    /\ csvData' = <<ParseCsv(FileText(lines))>>
    /\ fileLines' = lines
    /\ csvCall' = Null
    /\ UNCHANGED lastAlert
    /\ UNCHANGED <<appVars, exceptCsv>>

\* processFile for a file of another type
ProcessOtherFile ==
    /\ lastAlert' = "file"
    /\ UNCHANGED <<csvData, fileLines, csvCall>>
    /\ UNCHANGED <<appVars, exceptCsv>>

\* Mode2Upload.handleSubmit (the submit button is disabled while isLoading or
\* !csvData), and through onGenerate the part of handleGeneration before its
\* await
SubmitCsv ==
    /\ csvData # Null
    /\ ~isLoading
    /\ IF csvData[1] = <<>>
       THEN /\ lastAlert' = "submit"
            /\ UNCHANGED <<csvCall, appVars>>
       ELSE /\ attempts < MaxAttempts
            /\ csvCall' = csvData
            /\ attempts' = attempts + 1
            /\ isLoading' = TRUE
            /\ error' = Null
            /\ results' = Null
            /\ genPc' = "awaiting"
            /\ reply' = NoReply
            /\ UNCHANGED <<succeeded, lastAlert>>
    /\ UNCHANGED <<csvData, fileLines>>
    /\ UNCHANGED exceptCsv

InitCsv ==
    /\ csvData = Null
    /\ fileLines = <<>>
    /\ csvCall = Null
    /\ lastAlert = "none"

\* ------------------------------------------- generateCarouselsFromCSV
exceptGroup ==
    <<orchVars, zipVars, appVars, navVars, csvVars, fontVars, wrapVars>>

\* the reducer: (acc, row) => { if (!acc[id]) acc[id] = [];
\*                              acc[id].push({ordem, frase}); return acc }
Reducer(acc, row) ==
    LET id == row.carrossel_id
        list == IF id \in DOMAIN acc THEN acc[id] ELSE <<>>
        item == [ordem |-> row.ordem_slide, frase |-> row.frase]
    IN  [k \in DOMAIN acc \cup {id} |->
            IF k = id THEN Append(list, item) ELSE acc[k]]

\* csvData.reduce(reducer, {})
RECURSIVE Reduce(_, _)
Reduce(rows, acc) ==
    IF rows = <<>> THEN acc ELSE Reduce(Tail(rows), Reducer(acc, rows[1]))

\* a sorted list with one more item, put after the items that do not compare
\* greater (the sort is stable)
RECURSIVE InsertByOrdem(_, _)
InsertByOrdem(sorted, item) ==
    IF sorted = <<>> THEN <<item>>
    ELSE IF sorted[Len(sorted)].ordem - item.ordem <= 0
    THEN Append(sorted, item)
    ELSE Append(InsertByOrdem(SubSeq(sorted, 1, Len(sorted) - 1), item),
                sorted[Len(sorted)])

\* slides.sort((a, b) => a.ordem - b.ordem)
RECURSIVE SortSlides(_)
SortSlides(slides) ==
    IF slides = <<>> THEN <<>>
    ELSE InsertByOrdem(SortSlides(SubSeq(slides, 1, Len(slides) - 1)),
                       slides[Len(slides)])

\* GroupRows without the sort of each carousel's list
GroupRowsUnsorted(rows) == Reduce(rows, <<>>)

\* carouselsMap after the reduce and the forEach that sorts each list
GroupRows(rows) ==
    LET acc == Reduce(rows, <<>>)
    IN  [id \in DOMAIN acc |-> SortSlides(acc[id])]

\* the rows callers pass: two carousels, and one row repeating an ordem
GroupRowUniverse ==
    { [carrossel_id |-> <<"c", "1">>, ordem_slide |-> 1, frase |-> <<"A">>],
      [carrossel_id |-> <<"c", "1">>, ordem_slide |-> 2, frase |-> <<"B">>],
      [carrossel_id |-> <<"c", "1">>, ordem_slide |-> 3, frase |-> <<"C">>],
      [carrossel_id |-> <<"c", "2">>, ordem_slide |-> 1, frase |-> <<"D">>],
      [carrossel_id |-> <<"c", "2">>, ordem_slide |-> 2, frase |-> <<"E">>],
      [carrossel_id |-> <<"c", "1">>, ordem_slide |-> 2, frase |-> <<"F">>] }

NoRepeats(q) == \A i, j \in DOMAIN q : q[i] = q[j] => i = j

\* the part of generateCarouselsFromCSV before its await
BuildCarouselsMap ==
    /\ carouselsMap = Null
    /\ carouselsMap' = <<GroupRows(groupRows)>>
    /\ UNCHANGED groupRows
    /\ UNCHANGED exceptGroup

GroupIdle == groupRows = <<>> /\ carouselsMap = Null

InitGroup ==
    /\ groupRows \in {q \in SeqsUpTo(GroupRowUniverse, MaxGroupRows) : NoRepeats(q)}
    /\ carouselsMap = Null

\* ------------------------------------- renderSlideToBlob: font fitting
exceptFont ==
    <<orchVars, zipVars, appVars, navVars, csvVars, groupVars, wrapVars>>

Size == 1080
CoverFontSize == 90
BodyFontSize == 70
MinFontSize == 30
FontStep == 5

\* slide.tipo === 'capa' ? 90 : 70
BaseFontSize(tipo) == IF tipo = "capa" THEN CoverFontSize ELSE BodyFontSize

\* size * 0.85
MaxTextWidth == (Size * 85) \div 100

\* ctx.measureText(text).width > maxTextWidth * 2.5, for a text that is
\* units/10 times as wide as its font size: both sides are taken times 10
TooWide(size, units) == size * units > MaxTextWidth * 25

\* TooWide alone, without the test of the smallest size
LoopCondNoFloor(size, units) == TooWide(size, units)

\* the condition of the while
LoopCond(size, units) == TooWide(size, units) /\ size > MinFontSize

\* one pass of the while: fontSize -= 5
Shrink ==
    /\ fitPc = "loop"
    /\ LoopCond(fontSize, fitIn.units)
    /\ fontSize' = fontSize - FontStep
    /\ UNCHANGED <<fitIn, fitPc, lineHeight>>
    /\ UNCHANGED exceptFont

\* the while ends: const lineHeight = fontSize * 1.2
LeaveLoop ==
    /\ fitPc = "loop"
    /\ ~LoopCond(fontSize, fitIn.units)
    /\ fitPc' = "done"
    /\ lineHeight' = (fontSize * 12) \div 10
    /\ UNCHANGED <<fitIn, fontSize>>
    /\ UNCHANGED exceptFont

FontIdle == fitIn = Null /\ fontSize = 0 /\ fitPc = "idle" /\ lineHeight = 0

\* renderSlideToBlob arrives at its while with let fontSize = baseFontSize
InitFont ==
    /\ fitIn \in [tipo : {"capa", "conteudo", "cta"}, units : 0..MaxTextUnits]
    /\ fontSize = BaseFontSize(fitIn.tipo)
    /\ fitPc = "loop"
    /\ lineHeight = 0

\* ------------------------------------------------------------ wrapText
exceptWrap == <<orchVars, zipVars, appVars, navVars, csvVars, groupVars, fontVars>>

\* context.measureText(str).width in the font set: the sum of the advance
\* widths of its characters, a wide letter, a narrow letter and the space
CharWidth(ch) == IF ch = "m" THEN 3 ELSE 1
RECURSIVE TextWidth(_)
TextWidth(str) ==
    IF str = <<>> THEN 0 ELSE CharWidth(str[1]) + TextWidth(Tail(str))

\* testWidth > maxWidth alone, without the test n > 0
OverflowsAnyWord(testLine, maxWidth, n) == TextWidth(testLine) > maxWidth

\* testWidth > maxWidth && n > 0, n counting the words from 1 here
Overflows(testLine, maxWidth, n) == TextWidth(testLine) > maxWidth /\ n > 1

\* the for loop from word n on, with the line so far, the y of the line and
\* the fillText calls made; after the last word the line is drawn
RECURSIVE WrapLoop(_, _, _, _, _, _)
WrapLoop(words, n, line, y, calls, in) ==
    IF n > Len(words)
    THEN Append(calls, [text |-> line, x |-> in.x, y |-> y])
    ELSE LET testLine == line \o words[n] \o <<" ">>
         IN  IF Overflows(testLine, in.maxWidth, n)
             THEN WrapLoop(words, n + 1, words[n] \o <<" ">>, y + in.lineHeight,
                           Append(calls, [text |-> line, x |-> in.x, y |-> y]), in)
             ELSE WrapLoop(words, n + 1, testLine, y, calls, in)

\* wrapText(context, text, x, y, maxWidth, lineHeight): its fillText calls; it
\* returns their number
WrapText(in) == WrapLoop(SplitOn(in.text, " "), 1, <<>>, in.y, <<>>, in)

WrapChars == {"i", "m", " "}
WrapWidths == {4, 6}
\* fontSize * 1.2 for the sizes 30 and 70
LineHeights == {(MinFontSize * 12) \div 10, (BodyFontSize * 12) \div 10}

\* wrapText(ctx, text, size / 2, size / 2, maxTextWidth, lineHeight)
DrawText ==
    /\ drawn = Null
    /\ drawn' = WrapText(wrapIn)
    /\ UNCHANGED <<wrapIn, rewrapped>>
    /\ UNCHANGED exceptWrap

\* wrapText on each line it drew, with the same maxWidth and font
Rewrap ==
    /\ drawn # Null
    /\ rewrapped = Null
    /\ rewrapped' = [k \in DOMAIN drawn |->
                        WrapText([wrapIn EXCEPT !.text = drawn[k].text,
                                                !.y = drawn[k].y])]
    /\ UNCHANGED <<wrapIn, drawn>>
    /\ UNCHANGED exceptWrap

WrapIdle == wrapIn = Null /\ drawn = Null /\ rewrapped = Null

InitWrap ==
    /\ wrapIn \in [text : SeqsUpTo(WrapChars, MaxTextLen),
                   x : {Size \div 2}, y : {Size \div 2},
                   maxWidth : WrapWidths, lineHeight : LineHeights]
    /\ drawn = Null
    /\ rewrapped = Null

\* ------------------------------------------------------------ specification
\* the state after the first render and its effect
InitOrch ==
    /\ carousel \in Carousels
    /\ imageUrls = <<>>
    /\ isLoadingImages = EffectLoading(carousel, FALSE)
    /\ batches = EffectBatches(carousel, <<>>)
    /\ issued = EffectIssued(carousel, [c \in Carousels |-> 0])
    /\ lastApplied = <<>>
    /\ replacements = 0

InitComponents == InitOrch /\ InitZip /\ InitApp /\ InitNav /\ InitCsv

Init == InitComponents /\ GroupIdle /\ FontIdle /\ WrapIdle

Replace == \E c \in Carousels : ReplaceCarousel(c)
Settle ==
    \E b \in DOMAIN batches : \E i \in DOMAIN batches[b].results :
        \E r \in GenerateImageResults(SlidesOf(batches[b].car)[i].prompt_imagem) :
            RequestSettle(b, i, r)
Complete == \E b \in DOMAIN batches : BatchComplete(b)

Click == \E jszipOk \in BOOLEAN : ClickDownload(jszipOk)
Decode == \E ok \in BOOLEAN : DecodeSettle(ok)
Render == \E ctxOk \in BOOLEAN : RenderSettle(ctxOk)
Pack == \E ok \in BOOLEAN : PackSettle(ok)

Next == Replace \/ Settle \/ Complete \/ Click \/ Decode \/ Render \/ Pack

Spec == Init /\ [][Next]_vars

Responds == \E r \in Replies : ServiceResponds(r)

NextApp == HandleGeneration \/ Responds \/ GenerationSettles

SpecApp == Init /\ [][NextApp]_vars

\* the CSV form: files are read, the form is submitted, and the service
\* answers with a usable or an unusable reply
CsvReplies == {<<ObjCarousels>>, <<Junk>>}
UploadFile == \E lines \in CsvFiles : ProcessFile(lines)
RespondsCsv == \E r \in CsvReplies : ServiceResponds([kind |-> "text", text |-> r])

NextCsv ==
    UploadFile \/ ProcessOtherFile \/ SubmitCsv \/ RespondsCsv \/ GenerationSettles

\* the form is there before any preview is
InitForm0 == InitComponents /\ carousel = 1
InitForm == InitForm0 /\ GroupIdle /\ FontIdle /\ WrapIdle

SpecCsv == InitForm /\ [][NextCsv]_vars

\* generateCarouselsFromCSV called with some rows
InitGroupCall == InitForm0 /\ InitGroup /\ FontIdle /\ WrapIdle

SpecGroup == InitGroupCall /\ [][BuildCarouselsMap]_vars

\* renderSlideToBlob fitting the font of one slide; the loop is synchronous
\* code, so it keeps running while it has a step to take
NextFont == Shrink \/ LeaveLoop

InitFontCall == InitForm0 /\ GroupIdle /\ InitFont /\ WrapIdle

\* wrapText called by renderSlideToBlob, and called again on each line it drew
NextWrap == DrawText \/ Rewrap

InitWrapCall == InitForm0 /\ GroupIdle /\ FontIdle /\ InitWrap

SpecWrap == InitWrapCall /\ [][NextWrap]_vars

SpecFont == InitFontCall /\ [][NextFont]_vars /\ WF_vars(NextFont)

\* a mounted preview: its image batches, its navigation and the replacement of
\* its carousel prop
Dot == \E index \in 0..(SlideCount(carousel) - 1) : SelectDot(index)

NextNav == NextSlide \/ PrevSlide \/ Dot \/ Replace \/ Settle \/ Complete

SpecNav == Init /\ [][NextNav]_vars
\* ================================================================== claims
\* ---- the orchestrator (useEffect / fetchImages)

PendingIn(b) == {i \in DOMAIN batches[b].results : batches[b].results[i] = Pending}

\* C1: once the carousel prop has been replaced, the results of a batch started
\* for the earlier carousel are never written into imageUrls: every batch is
\* applied while its own carousel is still the active one, and a non-empty
\* map always comes from a batch started for the active carousel.
C1_StaleBatchNeverApplied ==
    /\ lastApplied # <<>> => lastApplied[1].car = lastApplied[1].active
    /\ imageUrls # <<>> => (lastApplied # <<>> /\ lastApplied[1].car = carousel)

\* C3: a batch issues exactly one generateImage request per slide, and
\* isLoadingImages is never false while a request of a batch started for the
\* active carousel is still pending.
C3_LoadingUntilAllSettled ==
    /\ \A b \in DOMAIN batches :
          DOMAIN batches[b].results = DOMAIN SlidesOf(batches[b].car)
    /\ \A b \in DOMAIN batches :
          (batches[b].car = carousel /\ PendingIn(b) # {}) => isLoadingImages

\* C4: while the active carousel's estilo_fundo contains neither "foto" nor
\* "photo" (or is undefined), no generateImage request was issued for that
\* carousel and imageUrls is empty.
C4_NonPhotoNoRequestsEmptyMap ==
    ~IsPhotoBg(carousel) => (issued[carousel] = 0 /\ imageUrls = <<>>)

\* C5: after a batch completes, imageUrls has an entry for order k exactly when
\* the request issued for the slide with ordem k resolved to a non-null
\* reference, and the entry is that slide's own result (the data URI made from
\* that slide's prompt), in whatever order the requests settled.
C5_ResultsKeyedByOwnOrder ==
    lastApplied # <<>> =>
        LET c == lastApplied[1].car
            res == lastApplied[1].results
            own(k) == {i \in DOMAIN res : SlidesOf(c)[i].ordem = k}
        IN  /\ DOMAIN imageUrls \subseteq Orders(c)
            /\ \A k \in Orders(c) :
                  /\ k \in DOMAIN imageUrls <=> \E i \in own(k) : res[i] # Null
                  /\ k \in DOMAIN imageUrls =>
                        \E i \in own(k) :
                            /\ imageUrls[k] = res[i]
                            /\ imageUrls[k] = DataUri(SlidesOf(c)[i].prompt_imagem)

\* C5 witness: the batch of carousel 1 (slides stored as ordem 2, ordem 1)
\* completed with a null result for the slide of ordem 2 and an image for the
\* slide of ordem 1, and the map has exactly the entry of ordem 1.
C5_Witness ==
    /\ lastApplied # <<>>
    /\ lastApplied[1].car = 1
    /\ lastApplied[1].results = <<Null, DataUri("p1a")>>
    /\ DOMAIN imageUrls = {1}
    /\ imageUrls[1] = DataUri("p1a")
\* ---- the exporter (handleDownloadZip)

\* an export has run to its end / its loop was entered (new JSZip() succeeded)
ExportEnded == zipPc = "idle" /\ (saveAsCalls # <<>> \/ threw)
LoopEntered == zipIdx >= 1
RenderedOk == {j \in DOMAIN slideLog : slideLog[j].blob # Null}
EntryOf(j) == [name |-> SlideFileName(slideLog[j].ordem), blob |-> slideLog[j].blob]
Entries(files) == {files[f] : f \in DOMAIN files}

\* C2: for a carousel whose ordem values are exactly 1..N, in any storage
\* order, an export that succeeds with every slide rasterized delivers exactly
\* the N entries slide_1.png .. slide_N.png, added in ascending ordem.
C2_ArchiveInAscendingOrder ==
    LET n == Len(SlidesOf(zipCar))
    IN  ( /\ saveAsCalls # <<>>
          /\ Orders(zipCar) = 1..n
          /\ \A j \in DOMAIN slideLog : slideLog[j].blob # Null )
        => /\ Len(saveAsCalls[1].content) = n
           /\ \A k \in 1..n : saveAsCalls[1].content[k].name = SlideFileName(k)

\* C6: a slide whose order has an entry in the image map but whose decode
\* fails (img.onerror) is rasterized with no background image (palette
\* background) and is still added to the archive, and the export goes on
\* through the remaining slides instead of aborting.
C6_DecodeFailureFallsBack ==
    /\ decoded = "error" => (zipPc = "rendering" /\ bgImage = Null)
    /\ \A j \in DOMAIN slideLog :
          slideLog[j].decode = "error" =>
             /\ HasUrl(zipUrls, slideLog[j].ordem)
             /\ slideLog[j].blob \in {Null, <<"png", slideLog[j].ordem, "palette">>}
             /\ slideLog[j].blob # Null => EntryOf(j) \in Entries(zipFiles)
    /\ (ExportEnded /\ LoopEntered) => Len(slideLog) = Len(SlidesOf(zipCar))

\* C6 witness: an export was delivered to saveAs in which the first slide's
\* decode failed; that slide is in the archive with the palette background and
\* a later slide is in the archive too.
C6_Witness ==
    /\ saveAsCalls # <<>>
    /\ Len(slideLog) >= 2
    /\ slideLog[1].decode = "error"
    /\ slideLog[1].blob = <<"png", slideLog[1].ordem, "palette">>
    /\ EntryOf(1) \in Entries(saveAsCalls[1].content)
    /\ slideLog[2].blob # Null
    /\ EntryOf(2) \in Entries(saveAsCalls[1].content)

\* C7: a slide whose rasterization resolves null is left out of the archive,
\* every other slide is still processed, and the archive delivered to saveAs
\* holds exactly the entries of the slides whose rasterization succeeded.
C7_FailedSlideSkipped ==
    /\ Entries(zipFiles) = {EntryOf(j) : j \in RenderedOk}
    /\ Len(zipFiles) = Cardinality(RenderedOk)
    /\ (ExportEnded /\ LoopEntered) => Len(slideLog) = Len(SlidesOf(zipCar))
    /\ saveAsCalls # <<>> => saveAsCalls = <<[content |-> zipFiles,
                                              filename |-> ZipFileName(zipCar)]>>

\* C7 witness: carousel 3 (three slides) was exported, the second slide
\* processed failed to rasterize, and saveAs received the other two entries.
C7_Witness ==
    /\ saveAsCalls # <<>>
    /\ zipCar = 3
    /\ Len(slideLog) = 3
    /\ slideLog[2].blob = Null
    /\ Entries(saveAsCalls[1].content) = {EntryOf(1), EntryOf(3)}

\* C8: when the export throws, the failure is reported exactly once (one
\* alert), saveAs is never called for that export, and the export ends
\* (nothing left in flight, isZipping false); an export that did not throw
\* raises no alert.
C8_FailureReportedOnceNoDownload ==
    /\ threw => /\ alertCount = 1
                /\ saveAsCalls = <<>>
                /\ zipPc = "idle"
                /\ ~isZipping
                /\ inflight = {}
    /\ ~threw => alertCount = 0
    /\ Len(saveAsCalls) <= 1

\* C8 witness: zip.generateAsync rejected after the loop had put entries into
\* the archive; one alert, no saveAs.
C8_Witness ==
    /\ threw
    /\ zipIdx = Len(SlidesOf(zipCar)) + 1
    /\ zipFiles # <<>>
    /\ alertCount = 1
    /\ saveAsCalls = <<>>

\* C10: within an export at most one image decode or rasterization is in
\* flight, and it belongs to the slide right after the slides whose decode and
\* rasterization have completed.
C10_OneSlideAtATime ==
    LET work == {op \in inflight : op[1] \in {"decode", "render"}}
    IN  /\ Cardinality(work) <= 1
        /\ \A op \in work : op[2] = Len(slideLog) + 1 /\ op[2] = zipIdx

\* C10 witness: the decode of the second slide is the only operation in
\* flight, and the first slide has been decoded and rasterized.
C10_Witness ==
    /\ inflight = {<<"decode", 2>>}
    /\ Len(slideLog) = 1
    /\ slideLog[1].decode # "none"
\* ---- App.handleGeneration

\* the last attempt has finished and its generation call failed
AttemptFailed == genPc = "idle" /\ reply # NoReply /\ ~GenerationFn(reply).ok

\* a reply that certainly is no JSON document: a service error, no text, no
\* JSON object in it, or text that is not JSON in it
NotJson(r) ==
    \/ r.kind # "text"
    \/ \A i \in DOMAIN r.text : r.text[i] \notin {ObjCarousels, ObjEmpty}
    \/ \E i \in DOMAIN r.text : r.text[i] = Junk

\* C9: when the generation call fails (service error, or a reply that is not
\* valid JSON), the finished attempt leaves one error message, results null,
\* isLoading false and the error panel on screen; results is non-null only
\* after an attempt whose call succeeded.
C9_FailedGenerationShowsOnlyError ==
    /\ (genPc = "idle" /\ reply # NoReply /\ NotJson(reply)) => AttemptFailed
    /\ AttemptFailed =>
          /\ Len(error) = 1
          /\ error[1] # ""
          /\ results = Null
          /\ ~isLoading
          /\ View = "error"
    /\ results # Null =>
          /\ genPc = "idle"
          /\ reply.kind = "text"
          /\ ~NotJson(reply)
          /\ error = Null
          /\ succeeded >= 1

\* C9 witness: a first attempt succeeded, a second one got a reply that is not
\* JSON and has finished: the parse error is shown and no results are left.
C9_Witness ==
    /\ attempts = 2
    /\ succeeded = 1
    /\ genPc = "idle"
    /\ reply = [kind |-> "text", text |-> <<FenceOpen, Junk, FenceClose>>]
    /\ error = <<ParseErrorMessage>>
    /\ results = Null
    /\ ~isLoading
\* ---- slide navigation (currentSlide)

\* C18: after any sequence of nextSlide, prevSlide and dot selections, and of
\* replacements of the carousel, currentSlide is an index of a slide of the
\* carousel: 0 <= currentSlide < carousel.slides.length
C18_CurrentSlideInRange ==
    /\ currentSlide >= 0
    /\ currentSlide < SlideCount(carousel)

\* ---- the exporter and the orchestrator sharing imageUrls

\* a step of fetchImages after its Promise.all: one batch leaves the list
BatchCompletes == Len(batches') < Len(batches)

\* the backgrounds of the export in progress come from the map captured when
\* it started: a slide is decoded exactly when the captured map has its ordem,
\* and the decoded image is the captured url
SnapshotUsed ==
    /\ \A k \in DOMAIN slideLog :
          (slideLog[k].decode # "none") <=> HasUrl(zipUrls, slideLog[k].ordem)
    /\ zipPc = "decoding" => HasUrl(zipUrls, SlidesOf(zipCar)[zipIdx].ordem)
    /\ bgImage # Null =>
          bgImage = <<"img", zipUrls[SlidesOf(zipCar)[zipIdx].ordem]>>

\* the capture is taken at the click and kept until the export ends; no step
\* of the export writes imageUrls or isLoadingImages; a batch that completes
\* writes its map whether or not an export is running
SnapshotSteps ==
    /\ (~isZipping /\ isZipping') => (zipUrls' = imageUrls /\ zipCar' = carousel)
    /\ (isZipping /\ isZipping') => (zipUrls' = zipUrls /\ zipCar' = zipCar)
    /\ zipVars' # zipVars =>
          (imageUrls' = imageUrls /\ isLoadingImages' = isLoadingImages)
    /\ imageUrls' # imageUrls => BatchCompletes
    /\ BatchCompletes =>
          /\ lastApplied' # <<>>
          /\ imageUrls' = BuildUrls(lastApplied'[1].car, lastApplied'[1].results)
          /\ ~isLoadingImages'

\* C11 as stated: the exporter reads imageUrls only as the snapshot taken when
\* the export starts and never writes it; results that arrive during an export
\* neither change its backgrounds nor are lost; and imageUrls and
\* isLoadingImages change only in a batch completion.
C11_OnlyBatchCompletionWrites ==
    /\ []SnapshotUsed
    /\ [][SnapshotSteps]_vars
    /\ [][isLoadingImages' # isLoadingImages => BatchCompletes]_vars

\* C11 amended: as above, except that isLoadingImages has two writers, both in
\* the orchestrator: the effect sets it when it starts a batch for a new
\* carousel, and the batch completion clears it. imageUrls changes only in
\* a batch completion.
C11_ExporterReadsSnapshot ==
    /\ []SnapshotUsed
    /\ [][SnapshotSteps]_vars
    /\ [][isLoadingImages' # isLoadingImages =>
            (BatchCompletes \/ replacements' # replacements)]_vars

\* an export is running on a captured map without slide 1's image, it has
\* rendered that slide without a photo, and meanwhile a batch has completed
\* and put the image into imageUrls
C11_Witness ==
    /\ isZipping
    /\ zipCar = carousel
    /\ slideLog # <<>>
    /\ slideLog[1].decode = "none"
    /\ ~HasUrl(zipUrls, slideLog[1].ordem)
    /\ HasUrl(imageUrls, slideLog[1].ordem)

\* ---- the exporter's busy flag

\* C19: isZipping is true exactly while a handleDownloadZip has started and
\* not yet finished: then the handler is suspended at exactly one await, and
\* otherwise at none, so that exports never overlap; and an export that has
\* ended, by a download or by a failure, has left isZipping false.
C19_ZippingExactlyWhileExporting ==
    /\ isZipping <=> zipPc # "idle"
    /\ isZipping <=> inflight # {}
    /\ Cardinality(inflight) <= 1
    /\ (saveAsCalls # <<>> \/ threw) => ~isZipping

\* an export that got into its loop has ended by a failure, and the flag is
\* false again
C19_Witness ==
    /\ threw
    /\ slideLog # <<>>
    /\ ~isZipping

\* ---- the CSV form (Mode2Upload)

\* a data line that gives a row with a carrossel_id, a numeric ordem_slide and
\* a phrase
GoodLine(line) == KeepRow(ParseRow(line))

\* C12: a call of generateCarouselsFromCSV is made only from fully valid
\* input: when the uploaded file has a bad or missing row, or no valid row,
\* no call is made.
C12_CallOnlyFromFullyValidInput ==
    csvCall # Null =>
        /\ fileLines # <<>>
        /\ \A i \in DOMAIN fileLines : GoodLine(fileLines[i])

\* ---- row grouping (generateCarouselsFromCSV)

\* the rows of carousel id, as the items the map holds
ItemsOf(rows, id) ==
    {[ordem |-> rows[i].ordem_slide, frase |-> rows[i].frase] :
        i \in {k \in DOMAIN rows : rows[k].carrossel_id = id}}

DistinctOrders(rows) ==
    \A i, j \in DOMAIN rows :
        (rows[i].carrossel_id = rows[j].carrossel_id
            /\ rows[i].ordem_slide = rows[j].ordem_slide) => i = j

\* C13: whatever the order of the rows (of distinct ordem within a carousel),
\* the map has one list per carrossel_id of the rows, and each list holds
\* exactly that carousel's rows, each phrase with its ordem, in ascending
\* ordem.
C13_GroupedAndSorted ==
    (carouselsMap # Null /\ DistinctOrders(groupRows)) =>
        LET map == carouselsMap[1]
        IN  /\ DOMAIN map = {groupRows[i].carrossel_id : i \in DOMAIN groupRows}
            /\ \A id \in DOMAIN map :
                  /\ {map[id][k] : k \in DOMAIN map[id]} = ItemsOf(groupRows, id)
                  /\ Len(map[id]) = Cardinality(ItemsOf(groupRows, id))
                  /\ \A k \in 1..(Len(map[id]) - 1) :
                        map[id][k].ordem < map[id][k + 1].ordem

\* the rows (c1, 2, B), (c1, 1, A) grouped: slide order 1, 2 with phrases A, B
C13_Witness ==
    /\ groupRows = <<[carrossel_id |-> <<"c", "1">>, ordem_slide |-> 2,
                      frase |-> <<"B">>],
                     [carrossel_id |-> <<"c", "1">>, ordem_slide |-> 1,
                      frase |-> <<"A">>]>>
    /\ carouselsMap # Null
    /\ carouselsMap[1][<<"c", "1">>] =
          <<[ordem |-> 1, frase |-> <<"A">>], [ordem |-> 2, frase |-> <<"B">>]>>

\* ---- font fitting (renderSlideToBlob)

\* the size is the base size of the slide's tipo less a multiple of 5, and
\* not under 30; once the loop has ended the text is at most 2.5 times the
\* wrap width wide or the size is 30, and lineHeight is 1.2 times the size
FontFitted ==
    fitPc # "idle" =>
        /\ fontSize <= BaseFontSize(fitIn.tipo)
        /\ fontSize >= 30
        /\ (BaseFontSize(fitIn.tipo) - fontSize) % 5 = 0
        /\ BaseFontSize(fitIn.tipo) = IF fitIn.tipo = "capa" THEN 90 ELSE 70
        /\ fitPc = "done" =>
              /\ fontSize * fitIn.units <= 22950 \/ fontSize = 30
              /\ 10 * lineHeight = 12 * fontSize

\* C17: the font-fitting loop always ends; the final size is one of base,
\* base - 5, base - 10, ... and at least 30, base being 90 for a 'capa' slide
\* and 70 otherwise; at the end the text's width is at most 2.5 x (0.85 x 1080)
\* or the size is exactly 30; and lineHeight is 1.2 times the final size.
C17_FontLoopEndsFitted == []FontFitted /\ <>(fitPc = "done")

\* a cover whose text is still too wide at the smallest size: the loop has
\* ended at 30
C17_Witness ==
    /\ fitPc = "done"
    /\ fitIn.tipo = "capa"
    /\ fontSize = 30
    /\ fontSize * fitIn.units > 22950
    /\ lineHeight = 36

\* ---- wrapText

\* the words of a drawn line: the line is its words, each followed by a space
LineWords(line) ==
    LET parts == SplitOn(line, " ") IN SubSeq(parts, 1, Len(parts) - 1)

RECURSIVE Flatten(_)
Flatten(qs) == IF qs = <<>> THEN <<>> ELSE qs[1] \o Flatten(Tail(qs))

\* the first j words of a line, each followed by a space
RECURSIVE Spaced(_, _)
Spaced(ws, j) ==
    IF j = 0 THEN <<>> ELSE Spaced(ws, j - 1) \o ws[j] \o <<" ">>

\* C16: the lines drawn hold the words of the text, whole, all of them and in
\* order; a line ends exactly where its next word would have made it wider
\* than maxWidth, measured with the space after the word; a word wider than
\* maxWidth is alone on its line; a line of two or more words is at most
\* maxWidth wide.
C16_GreedyWrap ==
    drawn # Null =>
        LET lw == [k \in DOMAIN drawn |-> LineWords(drawn[k].text)]
            max == wrapIn.maxWidth
        IN  /\ Flatten(lw) = SplitOn(wrapIn.text, " ")
            /\ \A k \in DOMAIN drawn :
                  /\ lw[k] # <<>>
                  /\ drawn[k].text = Spaced(lw[k], Len(lw[k]))
                  /\ \A j \in 2..Len(lw[k]) : TextWidth(Spaced(lw[k], j)) <= max
                  /\ k < Len(drawn) =>
                        TextWidth(drawn[k].text \o lw[k + 1][1] \o <<" ">>) > max
                  /\ Len(lw[k]) >= 2 => TextWidth(drawn[k].text) <= max
                  /\ \A j \in DOMAIN lw[k] :
                        TextWidth(lw[k][j]) > max => Len(lw[k]) = 1

\* "i i mm" at maxWidth 4: the line "i i " of two words, then the word "mm",
\* wider than maxWidth, on a line of its own
C16_Witness ==
    /\ drawn # Null
    /\ wrapIn.text = <<"i", " ", "i", " ", "m", "m">>
    /\ wrapIn.maxWidth = 4
    /\ Len(drawn) = 2
    /\ drawn[1].text = <<"i", " ", "i", " ">>
    /\ drawn[2].text = <<"m", "m", " ">>

\* C14: wrapText run again on a line it drew, with the same maxWidth and font,
\* draws one line: the line is not broken.
C14_RewrapKeepsLines ==
    rewrapped # Null => \A k \in DOMAIN rewrapped : Len(rewrapped[k]) = 1

\* C15: the n lines of a text are drawn at the same x, and as a block centred
\* on the y given: line i (from 0) at y + (i - (n - 1) / 2) * lineHeight.
C15_BlockCentredOnY ==
    drawn # Null =>
        \A k \in DOMAIN drawn :
            /\ drawn[k].x = wrapIn.x
            /\ 2 * drawn[k].y =
                  2 * wrapIn.y + (2 * (k - 1) - (Len(drawn) - 1)) * wrapIn.lineHeight
====
